---- MODULE Spec2Model ----
(***************************************************************************)
(* geojson-viewer: the Dash callbacks of server.py (create_columns,        *)
(* display_choropleth, save_data) over the single process-wide             *)
(* GeoJsonFile object of utils.py, driven by browser sessions.             *)
(*                                                                         *)
(* Optional values (Python's None) are sequences of length 0 or 1.         *)
(* A callback runs to completion before the next one starts; sessions      *)
(* interleave between callbacks.                                           *)
(***************************************************************************)
EXTENDS Integers, Sequences, FiniteSets, TLC

\* ---------------------------------------------------------------- bounds

\* Grid cells that may be held in an edited state at once, over all sessions.
MaxEdits == 1

\* The browser sessions served by the one process.
Sessions == {"s1", "s2"}

None == <<>>
Some(x) == <<x>>
Get(o) == o[1]

\* ---------------------------------------------------------- cell values

(* A cell value is a Python/JSON scalar.  Numbers are kept exactly as      *)
(* hi * Limb + lo (+ 1/2 when half), so that 64-bit integers beyond the    *)
(* 53-bit significand of a float64 can be told apart.                      *)
Limb == 2^27
IntV(hi, lo) == [k |-> "int", hi |-> hi, lo |-> lo, half |-> FALSE, s |-> ""]
FloatV(hi, lo, half) == [k |-> "float", hi |-> hi, lo |-> lo, half |-> half, s |-> ""]
StrV(s) == [k |-> "str", hi |-> 0, lo |-> 0, half |-> FALSE, s |-> s]
Null == [k |-> "null", hi |-> 0, lo |-> 0, half |-> FALSE, s |-> ""]

\* numpy int64 -> float64: exact below 2^53, round-half-to-even in [2^53, 2^54).
AsFloat64(v) ==
    IF v.hi < 2^26 \/ v.lo % 2 = 0
    THEN FloatV(v.hi, v.lo, FALSE)
    ELSE IF (v.lo - 1) % 4 = 0
         THEN FloatV(v.hi, v.lo - 1, FALSE)
         ELSE IF v.lo + 1 = Limb
              THEN FloatV(v.hi + 1, 0, FALSE)
              ELSE FloatV(v.hi, v.lo + 1, FALSE)

\* Text a user can type that Python's int()/float() accept, with its value.
NumericText == [s \in {"7"} |-> IntV(0, 7)]

\* The common dtype numpy gives a 2-D block of columns (DataFrame.values).
CommonDtype(dts) ==
    IF Cardinality(dts) <= 1 THEN (IF dts = {} THEN "object" ELSE CHOOSE d \in dts : TRUE)
    ELSE IF dts \subseteq {"int64", "float64"} THEN "float64"
    ELSE "object"

\* One element of DataFrame.values under the block's common dtype.
BlockValue(v, common) ==
    IF common = "float64" /\ v.k = "int" THEN AsFloat64(v) ELSE v

(* The grid's trip to the browser and back as JSON: NaN is sent as null,   *)
(* and a float without fractional part comes back as an integer.           *)
JsonValue(v) ==
    IF v.k = "float" /\ ~v.half THEN IntV(v.hi, v.lo) ELSE v

\* Whether Series.astype(dtype) accepts the element.
CanCast(v, dtype) ==
    CASE dtype = "object" -> TRUE
      [] dtype = "float64" -> v.k \in {"int", "float", "null"} \/ (v.k = "str" /\ v.s \in DOMAIN NumericText)
      [] dtype = "int64" -> v.k \in {"int", "float"} \/ (v.k = "str" /\ v.s \in DOMAIN NumericText)
      [] OTHER -> FALSE

\* The element after Series.astype(dtype): float -> int truncates.
Cast(v, dtype) ==
    CASE dtype = "object" -> v
      [] dtype = "float64" ->
            IF v.k = "int" THEN AsFloat64(v)
            ELSE IF v.k = "str" THEN AsFloat64(NumericText[v.s])
            ELSE v
      [] dtype = "int64" ->
            IF v.k = "float" THEN IntV(v.hi, v.lo)
            ELSE IF v.k = "str" THEN NumericText[v.s]
            ELSE v
      [] OTHER -> v

\* ------------------------------------------------------------- datasets

(* A GeoDataFrame: the column names in file order (geometry last), the     *)
(* dtype of every attribute column, the attribute rows, the geometry       *)
(* column and the coordinate reference system.                             *)
FrameX ==
    [columns  |-> <<"id", "area", "geometry">>,
     dtype    |-> [id |-> "int64", area |-> "float64"],
     rows     |-> << [id |-> IntV(0, 1),    area |-> FloatV(0, 1, TRUE)],
                     [id |-> IntV(2^26, 1), area |-> FloatV(0, 2, FALSE)] >>,
     geometry |-> <<"POLYGON x1", "POLYGON x2">>,
     crs      |-> "EPSG:4326"]

FrameY ==
    [columns  |-> <<"id", "area", "geometry">>,
     dtype    |-> [id |-> "object", area |-> "int64"],
     rows     |-> << [id |-> Null, area |-> IntV(0, 3)] >>,
     geometry |-> <<"POINT y1">>,
     crs      |-> "EPSG:3857"]

\* ------------------------------------------------------- the environment

\* Texts of the URL field: as typed, with the parts urlparse() finds.
EmptyText == [ws |-> FALSE, scheme |-> "", netloc |-> "", path |-> ""]
LocalText == [ws |-> TRUE, scheme |-> "", netloc |-> "", path |-> "~/x.geojson"]
WebText   == [ws |-> FALSE, scheme |-> "https", netloc |-> "example.org", path |-> "/x.geojson"]
\* What the user of each session types: one works from a file on disk, the
\* other from a web address; both may clear the field.
UrlTexts(s) == IF s = "s1" THEN {EmptyText, LocalText} ELSE {EmptyText, WebText}

\* Path(p).expanduser().absolute()
AbsolutePath == [p \in {"", "~/x.geojson"} |->
                    IF p = "" THEN "/cwd" ELSE "/home/user/x.geojson"]

\* Files on disk, documents on the web, and what GeoJSON text parses to.
FileSystem == [p \in {"/home/user/x.geojson"} |-> FrameX]
Web        == [u \in {"https://example.org/x.geojson"} |-> FrameX]
GeoJsonText == [t \in {"{FeatureCollection y}"} |-> FrameY]

\* Upload payloads: the string split at its commas.
PayloadY   == <<"data:application/geo+json;base64", "e0ZlYXR1cmVDb2xsZWN0aW9uIHl9">>
PayloadBad == <<"data:text/plain;base64", "bm90IGdlb2pzb24=">>
Payloads   == {PayloadY, PayloadBad}
Base64 == [b \in {"e0ZlYXR1cmVDb2xsZWN0aW9uIHl9", "bm90IGdlb2pzb24="} |->
              IF b = "e0ZlYXR1cmVDb2xsZWN0aW9uIHl9" THEN "{FeatureCollection y}" ELSE "not geojson"]

Raise == [ok |-> FALSE]
Return(x) == [ok |-> TRUE, value |-> x]

\* ----------------------------------------------------------- utils.py

\* read_upload_content: "_, content_string = content.split(',')", then base64.
read_upload_content(content) ==
    IF Len(content) /= 2 \/ content[2] \notin DOMAIN Base64
    THEN Raise
    ELSE Return(Base64[content[2]])

(* load_geojson: the set of outcomes of one call.  A local path and an     *)
(* uploaded text are read deterministically; a web document may also be    *)
(* unreachable.                                                            *)
load_geojson(inp_path, upload_content) ==
    IF inp_path /= None
    THEN LET content == [Get(inp_path) EXCEPT !.ws = FALSE]
         IN  IF content.netloc = "" /\ content.scheme = ""
             THEN LET p == AbsolutePath[content.path]
                  IN  IF p \in DOMAIN FileSystem THEN {Return(FileSystem[p])} ELSE {Raise}
             ELSE LET u == content.scheme \o "://" \o content.netloc \o content.path
                  IN  IF u \in DOMAIN Web THEN {Return(Web[u]), Raise} ELSE {Raise}
    ELSE IF upload_content /= None
         THEN LET text == read_upload_content(Get(upload_content))
              IN  IF text.ok /\ text.value \in DOMAIN GeoJsonText
                  THEN {Return(GeoJsonText[text.value])}
                  ELSE {Raise}
         ELSE {Raise}

\* GeoJsonFile.columns
columns(data_frame) ==
    IF data_frame = None THEN <<>>
    ELSE SelectSeq(Get(data_frame).columns, LAMBDA c : c /= "geometry")

\* GeoJsonFile.dtypes
dtypes(data_frame) ==
    IF data_frame = None THEN <<>>
    ELSE [c \in {columns(data_frame)[i] : i \in 1..Len(columns(data_frame))} |->
             Get(data_frame).dtype[c]]

SeqSet(q) == {q[i] : i \in 1..Len(q)}

\* GeoJsonFile.dash_data_table_from_dataframe
dash_data_table_from_dataframe(data_frame, cols) ==
    IF data_frame = None THEN <<>>
    ELSE LET df == Get(data_frame)
             common == CommonDtype({df.dtype[c] : c \in SeqSet(cols)})
         IN  [i \in 1..Len(df.rows) |->
                 [c \in SeqSet(cols) |-> BlockValue(df.rows[i][c], common)]]

PlaceholderLabel == "Load geojson file in the display tab first"
EditLabel == "To edit: click cells, adjust and press enter"

\* GeoJsonFile.to_viewbox, with the table data as the browser holds it.
to_viewbox(data_frame) ==
    IF data_frame = None
    THEN [label |-> PlaceholderLabel, columns |-> <<>>, data |-> <<>>, editable |-> FALSE]
    ELSE LET cols == SelectSeq(Get(data_frame).columns, LAMBDA c : c /= "geometry")
             data == dash_data_table_from_dataframe(data_frame, cols)
         IN  [label |-> EditLabel,
              columns |-> cols,
              data |-> [i \in 1..Len(data) |-> [c \in DOMAIN data[i] |-> JsonValue(data[i][c])]],
              editable |-> TRUE]

\* ----------------------------------------------------------- server.py

DefaultText == "Choose 2 columns and click the view button to compare."
OnlyTwoText == "You should select only 2 data keys."
DifferentText == "Columns must be different"
ErrorText == "Error: Could not load data content"

_clear_fig(text) == [kind |-> "placeholder", text |-> text]

\* "geojson_file or ''": None and the empty string both give the empty string.
OrEmpty(geojson_file) ==
    IF geojson_file = None THEN EmptyText ELSE Get(geojson_file)

\* Mutant: the reset button is treated like the load button.
LoadRequested_ResetLoads(triggered_id, upload_content) ==
    triggered_id \in {"load-button", "reset-button"} \/ upload_content /= None

\* create_columns: whether this run attempts a load.
LoadRequested(triggered_id, upload_content) ==
    triggered_id = "load-button" \/ upload_content /= None

\* Mutant: neither input is nulled before the loader is called.
LoaderInputs_NoNulling(geojson_file, upload_content, triggered_id) ==
    <<geojson_file, upload_content>>

\* create_columns: the (geojson_file, upload_content) pair after one is nulled.
LoaderInputs(geojson_file, upload_content, triggered_id) ==
    IF triggered_id = "load-button"
    THEN <<geojson_file, None>>
    ELSE <<None, upload_content>>

\* Mutant: the Document is not cleared before the load is tried.
FrameAfterLoad_KeepsOld(old, res) ==
    IF res.ok THEN Some(res.value) ELSE old

\* create_columns: geo_json_obj.data_frame after "= None" and the guarded load.
FrameAfterLoad(old, res) ==
    IF res.ok THEN Some(res.value) ELSE None

\* create_columns: the tuple returned after the attempt.
ReturnTuple(frame, status_msg, geojson_file) ==
    LET disable_button == (frame = None)
    IN  [columns        |-> IF frame = None THEN <<>>
                            ELSE SelectSeq(Get(frame).columns, LAMBDA c : c /= "geometry"),
         status         |-> status_msg,
         viewbox        |-> to_viewbox(frame),
         reset_disabled |-> disable_button,
         save_disabled  |-> disable_button,
         url            |-> OrEmpty(geojson_file),
         graph          |-> _clear_fig(DefaultText)]

\* create_columns: the runs possible for one invocation, one per loader outcome.
create_columns(frame, geojson_file, upload_content, triggered_id) ==
    IF geojson_file = None /\ upload_content = None
    THEN {[data_frame |-> frame, attempted |-> FALSE, failed |-> FALSE,
           args |-> <<None, None>>,
           ret |-> [columns |-> <<>>, status |-> "", viewbox |-> to_viewbox(frame),
                    reset_disabled |-> TRUE, save_disabled |-> TRUE,
                    url |-> EmptyText, graph |-> _clear_fig(DefaultText)]]}
    ELSE IF LoadRequested(triggered_id, upload_content)
         THEN LET args == LoaderInputs(geojson_file, upload_content, triggered_id)
              IN  {[data_frame |-> FrameAfterLoad(frame, res),
                    attempted |-> TRUE, failed |-> ~res.ok, args |-> args,
                    ret |-> ReturnTuple(FrameAfterLoad(frame, res),
                                        IF res.ok THEN "" ELSE ErrorText, args[1])]
                   : res \in load_geojson(args[1], args[2])}
         ELSE {[data_frame |-> frame, attempted |-> FALSE, failed |-> FALSE,
                args |-> <<None, None>>,
                ret |-> ReturnTuple(frame, "", geojson_file)]}

\* pd.DataFrame(table_data): the columns are the keys of the row dicts.
FrameColumns(table_data) == UNION {DOMAIN table_data[i] : i \in 1..Len(table_data)}

\* pd.DataFrame(table_data).astype(dtype): KeyError for a missing column,
\* ValueError/TypeError for an element that cannot be cast.
astype(table_data, dtype) ==
    IF ~(DOMAIN dtype \subseteq FrameColumns(table_data))
    THEN Raise
    ELSE IF \E i \in 1..Len(table_data) : \E c \in DOMAIN dtype :
               ~CanCast(table_data[i][c], dtype[c])
    THEN Raise
    ELSE Return([i \in 1..Len(table_data) |->
                   [c \in DOMAIN table_data[i] |->
                       IF c \in DOMAIN dtype THEN Cast(table_data[i][c], dtype[c])
                       ELSE table_data[i][c]]])

NoGeometry == "null"

\* gp.GeoDataFrame(frame, geometry=series, crs=crs): the series is aligned on
\* the frame's index (both are RangeIndex 0..n-1); a row the series has no
\* entry for gets a null geometry, a series entry beyond the frame is dropped.
GeoDataFrame(rows, geometry, crs) ==
    [rows     |-> rows,
     geometry |-> [i \in 1..Len(rows) |->
                      IF i \in DOMAIN geometry THEN geometry[i] ELSE NoGeometry],
     crs      |-> crs]

\* display_choropleth: columns is None or a list of None/str entries.  The
\* result is the tuple returned (line 175 returns the bare figure), or Raise.
display_choropleth(frame, cols, table_data) ==
    LET c == IF cols = None THEN <<>> ELSE Get(cols) IN
    IF cols = None \/ Len(c) /= 2 \/ frame = None
    THEN Return(<<_clear_fig(DefaultText), "">>)
    ELSE IF Len(c) > 2
    THEN Return(<<_clear_fig(OnlyTwoText)>>)
    ELSE IF c[1] = None \/ c[2] = None \/ c[1] = c[2]
    THEN Return(<<_clear_fig(DefaultText), "">>)
    ELSE IF c[1] = c[2]
    THEN Return(<<_clear_fig(DifferentText), "">>)
    ELSE LET location == Get(c[1])
             color == Get(c[2])
             data == astype(table_data, dtypes(frame))
         IN  IF ~data.ok
             THEN Raise
             ELSE IF ~({color, location} \subseteq SeqSet(Get(frame).columns))
             THEN Return(<<_clear_fig(DefaultText), "">>)
             ELSE Return(<<[kind |-> "choropleth", data |-> data.value,
                            geometry |-> Get(frame).geometry,
                            color |-> color, locations |-> location], "">>)

\* Mutant: the export is written back to geo_json_obj.data_frame.
save_data_WritesBack(frame, table_data) ==
    IF frame = None
    THEN [outcome |-> "PreventUpdate", payload |-> None, temp_file |-> FALSE,
          data_frame |-> frame]
    ELSE LET data == astype(table_data, dtypes(frame))
         IN  IF ~data.ok
             THEN [outcome |-> "error", payload |-> None, temp_file |-> FALSE,
                   data_frame |-> frame]
             ELSE [outcome |-> "ok",
                   payload |-> Some([content |-> GeoDataFrame(data.value,
                                                     Get(frame).geometry, Get(frame).crs),
                                     dtype |-> dtypes(frame),
                                     filename |-> "geojsonviewer-%Y%m%dT%H%M.geojson"]),
                   temp_file |-> TRUE,
                   data_frame |-> Some([Get(frame) EXCEPT !.rows =
                                          [i \in 1..Len(data.value) |->
                                              [c \in DOMAIN Get(frame).dtype |-> data.value[i][c]]]])]

\* Mutant: the check for an empty Document is missing, so the subscript of
\* None raises.
save_data_NoGuard(frame, table_data) ==
    LET data == astype(table_data, dtypes(frame))
    IN  IF frame = None \/ ~data.ok
        THEN [outcome |-> "error", payload |-> None, temp_file |-> FALSE,
              data_frame |-> frame]
        ELSE [outcome |-> "ok",
              payload |-> Some([content |-> GeoDataFrame(data.value,
                                                Get(frame).geometry, Get(frame).crs),
                                dtype |-> dtypes(frame),
                                filename |-> "geojsonviewer-%Y%m%dT%H%M.geojson"]),
              temp_file |-> TRUE,
              data_frame |-> frame]

\* Mutant: a grid whose row count is not the Document's is refused.
save_data_RefusesOtherShape(frame, table_data) ==
    IF frame = None \/ Len(table_data) /= Len(Get(frame).rows)
    THEN [outcome |-> "PreventUpdate", payload |-> None, temp_file |-> FALSE,
          data_frame |-> frame]
    ELSE LET data == astype(table_data, dtypes(frame))
         IN  IF ~data.ok
             THEN [outcome |-> "error", payload |-> None, temp_file |-> FALSE,
                   data_frame |-> frame]
             ELSE [outcome |-> "ok",
                   payload |-> Some([content |-> GeoDataFrame(data.value,
                                                     Get(frame).geometry, Get(frame).crs),
                                     dtype |-> dtypes(frame),
                                     filename |-> "geojsonviewer-%Y%m%dT%H%M.geojson"]),
                   temp_file |-> TRUE,
                   data_frame |-> frame]

\* save_data: PreventUpdate, an exception, or the download payload.
save_data(frame, table_data) ==
    IF frame = None
    THEN [outcome |-> "PreventUpdate", payload |-> None, temp_file |-> FALSE,
          data_frame |-> frame]
    ELSE LET data == astype(table_data, dtypes(frame))
         IN  IF ~data.ok
             THEN [outcome |-> "error", payload |-> None, temp_file |-> FALSE,
                   data_frame |-> frame]
             ELSE [outcome |-> "ok",
                   payload |-> Some([content |-> GeoDataFrame(data.value,
                                                     Get(frame).geometry, Get(frame).crs),
                                     dtype |-> dtypes(frame),
                                     filename |-> "geojsonviewer-%Y%m%dT%H%M.geojson"]),
                   temp_file |-> TRUE,
                   data_frame |-> frame]

\* ------------------------------------------------------------ the system

VARIABLES
    data_frame,      \* geo_json_obj.data_frame: None or Some(frame)
    opened,          \* per session: the page has been served
    geojson_file,    \* per session: value of the URL field
    upload,          \* per session: contents of the upload control
    table,           \* per session: the edit view (label, columns, data)
    options,         \* per session: options of the column dropdown
    load_status,     \* per session: the status text
    reset_disabled,  \* per session: reset button disabled
    save_disabled,   \* per session: save button disabled
    loaded_by,       \* history: the session whose load set data_frame, or "nobody"
    own_grid,        \* history: per session, its grid was rendered by its own load
    last             \* history: the last callback run, its inputs and result

vars == <<data_frame, opened, geojson_file, upload, table, options, load_status,
          reset_disabled, save_disabled, loaded_by, own_grid, last>>

client == <<opened, geojson_file, upload, table, options, load_status,
            reset_disabled, save_disabled, own_grid>>

\* layout.py: the widgets as the page is served.
LayoutTable == [label |-> PlaceholderLabel, columns |-> <<>>, data |-> <<>>, editable |-> FALSE]

Init ==
    /\ data_frame = None
    /\ opened = [s \in Sessions |-> FALSE]
    /\ geojson_file = [s \in Sessions |-> None]
    /\ upload = [s \in Sessions |-> None]
    /\ table = [s \in Sessions |-> LayoutTable]
    /\ options = [s \in Sessions |-> <<>>]
    /\ load_status = [s \in Sessions |-> ""]
    /\ reset_disabled = [s \in Sessions |-> TRUE]
    /\ save_disabled = [s \in Sessions |-> TRUE]
    /\ loaded_by = "nobody"
    /\ own_grid = [s \in Sessions |-> FALSE]
    /\ last = [op |-> "none"]

\* One run of create_columns for session s, and the outputs applied to its page.
RunCreateColumns(s, url, content, triggered_id) ==
    \E run \in create_columns(data_frame, url, content, triggered_id) :
        /\ data_frame' = run.data_frame
        /\ opened' = [opened EXCEPT ![s] = TRUE]
        /\ upload' = [upload EXCEPT ![s] = content]
        /\ geojson_file' = [geojson_file EXCEPT ![s] = Some(run.ret.url)]
        /\ table' = [table EXCEPT ![s] = run.ret.viewbox]
        /\ options' = [options EXCEPT ![s] = run.ret.columns]
        /\ load_status' = [load_status EXCEPT ![s] = run.ret.status]
        /\ reset_disabled' = [reset_disabled EXCEPT ![s] = run.ret.reset_disabled]
        /\ save_disabled' = [save_disabled EXCEPT ![s] = run.ret.save_disabled]
        /\ loaded_by' = IF run.attempted
                        THEN (IF run.failed THEN "nobody" ELSE s)
                        ELSE loaded_by
        /\ own_grid' = [own_grid EXCEPT ![s] = run.attempted /\ ~run.failed]
        /\ last' = [op |-> "create_columns", s |-> s, triggered_id |-> triggered_id,
                    geojson_file |-> url, upload_content |-> content,
                    frame_before |-> data_frame, attempted |-> run.attempted,
                    failed |-> run.failed, args |-> run.args, ret |-> run.ret]

\* The browser fetches the page: the layout's widgets, then the initial run of
\* create_columns with no trigger.  (The initial runs of the other two callbacks
\* see the layout's empty table and no selection, and change nothing.)
OpenPage(s) ==
    RunCreateColumns(s, None, None, "none")

\* The user types into the URL field.
TypeUrl(s) ==
    /\ opened[s]
    /\ \E t \in UrlTexts(s) :
          /\ geojson_file[s] /= Some(t)
          /\ geojson_file' = [geojson_file EXCEPT ![s] = Some(t)]
    /\ UNCHANGED <<data_frame, opened, upload, table, options, load_status,
                   reset_disabled, save_disabled, loaded_by, own_grid, last>>

\* The user drops a file on the upload control.
UploadFile(s) ==
    /\ opened[s]
    /\ \E p \in Payloads :
          RunCreateColumns(s, geojson_file[s], Some(p), "upload")

\* The user clicks "Load url".
ClickLoad(s) ==
    /\ opened[s]
    /\ RunCreateColumns(s, geojson_file[s], upload[s], "load-button")

\* The user clicks "Reset data" (only an enabled button can be clicked).
ClickReset(s) ==
    /\ opened[s]
    /\ ~reset_disabled[s]
    /\ RunCreateColumns(s, geojson_file[s], upload[s], "reset-button")

\* What a user types into a cell of the grid.
EditValues == {StrV("7")}

\* The grid rows the user edits.
EditRows == {1}

EditCount(data) ==
    Cardinality({<<i, c>> \in (1..Len(data)) \X FrameColumns(data) : data[i][c] \in EditValues})

TotalEdits ==
    LET RECURSIVE Sum(_)
        Sum(S) == IF S = {} THEN 0
                  ELSE LET s == CHOOSE x \in S : TRUE
                       IN  EditCount(table[s].data) + Sum(S \ {s})
    IN  Sum(Sessions)

\* The user edits one cell of the grid.
EditCell(s) ==
    /\ opened[s]
    /\ table[s].editable
    /\ \E i \in EditRows \cap (1..Len(table[s].data)) : \E c \in SeqSet(table[s].columns) : \E v \in EditValues :
          LET data == [table[s].data EXCEPT ![i][c] = v]
          IN  /\ data /= table[s].data
              /\ EditCount(data) + TotalEdits - EditCount(table[s].data) <= MaxEdits
              /\ table' = [table EXCEPT ![s].data = data]
    /\ UNCHANGED <<data_frame, opened, geojson_file, upload, options, load_status,
                   reset_disabled, save_disabled, loaded_by, own_grid, last>>

\* The dropdown selections tried with the view button.
ColumnChoices ==
    {None,
     Some(<<Some("id"), Some("area")>>),
     Some(<<Some("id"), Some("id")>>),
     Some(<<Some("id"), Some("area"), Some("id")>>)}

\* The user clicks "View".
ClickView(s) ==
    /\ opened[s]
    /\ \E cols \in ColumnChoices :
          last' = [op |-> "display_choropleth", s |-> s, columns |-> cols,
                   frame_before |-> data_frame,
                   result |-> display_choropleth(data_frame, cols, table[s].data)]
    /\ UNCHANGED <<data_frame, client, loaded_by>>

\* The user clicks "Save data" (only an enabled button can be clicked).
ClickSave(s) ==
    /\ opened[s]
    /\ ~save_disabled[s]
    /\ LET run == save_data(data_frame, table[s].data)
       IN  /\ data_frame' = run.data_frame
           /\ last' = [op |-> "save_data", s |-> s, table_data |-> table[s].data,
                       frame_before |-> data_frame, own_grid |-> own_grid[s],
                       loaded_by |-> loaded_by,
                       outcome |-> run.outcome, payload |-> run.payload,
                       temp_file |-> run.temp_file]
    /\ UNCHANGED <<client, loaded_by>>

Next ==
    \E s \in Sessions :
        \/ OpenPage(s)
        \/ TypeUrl(s)
        \/ UploadFile(s)
        \/ ClickLoad(s)
        \/ ClickReset(s)
        \/ EditCell(s)
        \/ ClickView(s)
        \/ ClickSave(s)

Spec == Init /\ [][Next]_vars

\* --------------------------------------------------------------- claims

IsCreateColumns == last.op = "create_columns"
IsSave == last.op = "save_data"
IsView == last.op = "display_choropleth"
SavedOk == IsSave /\ last.outcome = "ok"
Export == Get(last.payload).content

\* The non-geometry column names of a frame, in file order.
AttributeColumns(frame) ==
    IF frame = None THEN <<>>
    ELSE LET all == Get(frame).columns
             keep == {i \in 1..Len(all) : all[i] /= "geometry"}
             RECURSIVE Build(_)
             Build(n) == IF n = 0 THEN <<>>
                         ELSE IF n \in keep THEN Append(Build(n - 1), all[n])
                         ELSE Build(n - 1)
         IN  Build(Len(all))

\* The last callback run was a reset click on a loaded Document.
ResetOnLoaded ==
    /\ IsCreateColumns
    /\ last.triggered_id = "reset-button"
    /\ last.frame_before /= None

\* C1 (as stated): a reset click on a loaded Document leaves the Document
\* empty, the column list empty and the save and reset buttons disabled.
C1_ResetEmptiesDocument ==
    ResetOnLoaded =>
        /\ data_frame = None
        /\ last.ret.columns = <<>>
        /\ last.ret.reset_disabled
        /\ last.ret.save_disabled

\* C1 (amended): a reset click on a loaded Document never clears it by itself.
\* With no upload payload in the session no load is attempted, the Document is
\* unchanged, and the handler returns its non-geometry columns, the grid
\* rendered afresh from it and enabled buttons.  With an upload payload present
\* the handler loads that payload again (never the URL text): the Document is
\* empty afterwards exactly when that load fails.
C1_ResetKeepsOrReloads ==
    ResetOnLoaded =>
        IF last.upload_content = None
        THEN /\ ~last.attempted
             /\ data_frame = last.frame_before
             /\ last.ret.columns = AttributeColumns(last.frame_before)
             /\ ~last.ret.reset_disabled
             /\ ~last.ret.save_disabled
             /\ last.ret.viewbox.editable
             /\ EditCount(last.ret.viewbox.data) = 0
             /\ last.ret.status = ""
        ELSE /\ last.attempted
             /\ last.args = <<None, last.upload_content>>
             /\ (data_frame = None) <=> last.failed
             /\ last.ret.reset_disabled <=> last.failed
             /\ last.ret.save_disabled <=> last.failed
             /\ last.ret.columns = AttributeColumns(data_frame)

\* C1 witness: a reset click ran on a Document loaded from the URL field, in a
\* session that holds no upload payload, and the Document is still loaded.
C1_Witness ==
    /\ ResetOnLoaded
    /\ last.upload_content = None
    /\ last.geojson_file = Some(LocalText)
    /\ data_frame = Some(FrameX)

\* C2: a failed load attempt leaves the Document empty, also when one was
\* loaded before, and the handler returns (it does not raise) the fixed error
\* text, an empty column list and disabled save and reset buttons.
C2_FailedLoadLeavesEmpty ==
    (IsCreateColumns /\ last.attempted /\ last.failed) =>
        /\ data_frame = None
        /\ last.ret.status = ErrorText
        /\ load_status[last.s] = ErrorText
        /\ last.ret.columns = <<>>
        /\ options[last.s] = <<>>
        /\ last.ret.reset_disabled /\ reset_disabled[last.s]
        /\ last.ret.save_disabled /\ save_disabled[last.s]
        /\ last.ret.viewbox.label = PlaceholderLabel

\* C2 witness: a load failed while a Document was loaded.
C2_Witness ==
    /\ IsCreateColumns
    /\ last.attempted
    /\ last.failed
    /\ last.frame_before /= None

\* C3: the loader receives only the input of the triggering event: the URL
\* text and no payload for the load button, the payload and no URL text for
\* the upload control; it is never called with both.
C3_LoaderGetsTriggerInput ==
    (IsCreateColumns /\ last.attempted) =>
        /\ last.triggered_id = "load-button" => last.args = <<last.geojson_file, None>>
        /\ last.triggered_id = "upload" => last.args = <<None, last.upload_content>>
        /\ ~(last.args[1] /= None /\ last.args[2] /= None)

\* C3 witness: the load button was clicked while the session held both a URL
\* text and an upload payload, and the loader got the URL text alone.
C3_Witness ==
    /\ IsCreateColumns
    /\ last.attempted
    /\ last.triggered_id = "load-button"
    /\ last.geojson_file = Some(LocalText)
    /\ last.upload_content /= None
    /\ last.args = <<Some(LocalText), None>>

\* C4: every row of a successful export has the geometry of the Document
\* loaded at the time of the save, and the export has its reference system.
C4_ExportGeometryIsDocument ==
    SavedOk =>
        /\ Export.crs = Get(data_frame).crs
        /\ \A i \in 1..Len(Export.rows) :
              /\ i \in DOMAIN Get(data_frame).geometry
              /\ Export.geometry[i] = Get(data_frame).geometry[i]

\* C5 (as stated): a successful save re-applies the grid's edited values:
\* after it the Document's attribute values are the exported grid values.
C5_SaveUpdatesDocument ==
    (SavedOk /\ EditCount(last.table_data) > 0) =>
        Get(data_frame).rows = Export.rows

\* C5 (amended): a save exports the type-coerced grid values but leaves the
\* Document as it was; no grid edit and no view event changes the Document
\* either.
C5_SaveLeavesDocument ==
    [][ /\ data_frame' /= data_frame =>
              (last'.op = "create_columns" /\ last'.attempted)
        /\ (last'.op = "save_data" /\ last'.outcome = "ok") =>
              LET out == Get(last'.payload).content
                  dt == Get(last'.frame_before).dtype
              IN  /\ data_frame' = last'.frame_before
                  /\ Len(out.rows) = Len(last'.table_data)
                  /\ \A i \in 1..Len(out.rows) : \A c \in DOMAIN dt :
                        out.rows[i][c] = Cast(last'.table_data[i][c], dt[c])
      ]_vars

\* C5 witness: an edited grid was saved, and the Document still has the
\* values it was loaded with, not the exported ones.
C5_Witness ==
    /\ SavedOk
    /\ EditCount(last.table_data) > 0
    /\ data_frame = last.frame_before
    /\ Get(data_frame).rows /= Export.rows

\* C6: with three or more chosen columns (and a Document loaded) the view
\* handler returns a (figure, status) pair whose figure carries the 'choose
\* only 2' text, not the default idle figure.
C6_ThreeColumnsAnnotated ==
    (/\ IsView
     /\ last.frame_before /= None
     /\ last.columns /= None
     /\ Len(Get(last.columns)) >= 3) =>
        /\ last.result.ok
        /\ Len(last.result.value) = 2
        /\ last.result.value[1] = _clear_fig(OnlyTwoText)

\* C7: every return of the Load/Reset handler reflects the Document as it is:
\* the column list is its non-geometry columns in order, the save and reset
\* buttons are disabled exactly when it is empty, and the edit view is the
\* placeholder exactly when it is empty.
C7_ReturnReflectsDocument ==
    IsCreateColumns =>
        /\ last.ret.columns = AttributeColumns(data_frame)
        /\ last.ret.reset_disabled <=> (data_frame = None)
        /\ last.ret.save_disabled <=> (data_frame = None)
        /\ (last.ret.viewbox.label = PlaceholderLabel) <=> (data_frame = None)

\* C8: saving the unedited grid of the loaded Document exports exactly the
\* Document's attribute values, column types and geometry.
C8_SaveRoundTrip ==
    (SavedOk /\ last.table_data = to_viewbox(data_frame).data) =>
        /\ Export.rows = Get(data_frame).rows
        /\ Get(last.payload).dtype = Get(data_frame).dtype
        /\ Export.geometry = Get(data_frame).geometry

\* C9: a save event on an empty Document is answered with 'no update': no
\* payload, no error, no temporary file, and the Document stays empty.
C9_SaveWithoutDocument ==
    (IsSave /\ last.frame_before = None) =>
        /\ last.outcome = "PreventUpdate"
        /\ last.payload = None
        /\ ~last.temp_file
        /\ data_frame = None

\* C9 witness: the save button was clicked while the Document was empty.
C9_Witness ==
    /\ IsSave
    /\ last.frame_before = None
    /\ ~save_disabled[last.s]

StaleSave ==
    /\ IsSave
    /\ last.own_grid
    /\ last.frame_before /= None
    /\ last.loaded_by \notin {last.s, "nobody"}

\* C10: a save from a session whose grid came from its own load, made after
\* another session's load replaced the Document, is not refused: it fails only
\* when the grid cannot be coerced, and otherwise exports the session's grid
\* values under the other dataset's column types, geometry and reference system.
C10_ForeignDocumentUndetected ==
    StaleSave =>
        /\ last.outcome /= "PreventUpdate"
        /\ (last.outcome = "error") <=> ~astype(last.table_data, dtypes(data_frame)).ok
        /\ last.outcome = "ok" =>
              /\ Export.crs = Get(data_frame).crs
              /\ Get(last.payload).dtype = Get(data_frame).dtype
              /\ Len(Export.rows) = Len(last.table_data)
              /\ \A i \in 1..Len(Export.rows) :
                    i \in DOMAIN Get(data_frame).geometry =>
                        Export.geometry[i] = Get(data_frame).geometry[i]

\* C10 witness: a session that loaded the two-row dataset saved its unedited
\* grid after the other session had loaded the one-row dataset, and the export
\* pairs the first session's rows with the second dataset's geometry, types and
\* reference system.
C10_Witness ==
    /\ StaleSave
    /\ last.outcome = "ok"
    /\ last.table_data = to_viewbox(Some(FrameX)).data
    /\ data_frame = Some(FrameY)
    /\ Len(Export.rows) = Len(FrameX.rows)
    /\ Export.geometry[1] = FrameY.geometry[1]
    /\ Export.crs = FrameY.crs
    /\ Get(last.payload).dtype = FrameY.dtype

\* C11: every run of the Load/Reset handler returns a freshly built placeholder
\* figure and, for every trigger, the URL field value it received (the empty
\* string when it received none), so an upload or a reset never erases text
\* the user typed into the URL field.
C11_UrlEchoed ==
    IsCreateColumns =>
        /\ last.ret.graph = _clear_fig(DefaultText)
        /\ last.ret.url = OrEmpty(last.geojson_file)
        /\ (last.ret.url = EmptyText /\ last.upload_content /= None) =>
              OrEmpty(last.geojson_file) = EmptyText
====
